---- MODULE Spec2Model ----
(***************************************************************************)
(* ControlLoRAModel (models/control_lora.py): adapter installation at      *)
(* construction, state-dict filtering and backfill, weight tying with a    *)
(* base UNet, encoder binding and the latent-conditioning forward path.    *)
(*                                                                         *)
(* A dotted parameter path is a sequence of tokens: word tokens and the    *)
(* separator ".".  Tensors are symbolic records; parameter objects live in *)
(* a heap so that identity (tying) and value are distinct notions.         *)
(***************************************************************************)
EXTENDS Integers, Sequences, FiniteSets, TLC

\* ------------------------------------------------------------------ bounds
MaxRank == 1
MaxVal == 1
MaxWrites == 1
MaxLoads == 1

\* ------------------------------------------------------- program constants
lora_linear_rank_default == 4
lora_conv2d_rank_default == 0
in_channels_default == 4
conditioning_channels_default == 3

NoLora == -1
None == "None"

Ranks == (0..MaxRank) \cup {lora_linear_rank_default, lora_conv2d_rank_default}
Vals == 0..MaxVal

_skip_layers ==
  {"conv_in", "time_proj", "time_embedding", "class_embedding",
   "down_blocks", "mid_block", "vae"}

\* ------------------------------------------------------------ path strings
\* '.'.join(segs)
RECURSIVE Join(_)
Join(segs) ==
  IF Len(segs) = 0 THEN <<>>
  ELSE IF Len(segs) = 1 THEN <<segs[1]>>
  ELSE <<segs[1], ".">> \o Join(Tail(segs))

\* k.split('.')[0]: the tokens before the first separator
RECURSIVE FirstSegment(_)
FirstSegment(k) ==
  IF Len(k) = 0 \/ k[1] = "." THEN <<>>
  ELSE <<k[1]>> \o FirstSegment(Tail(k))

\* k.split('.')[0] in self._skip_layers
InSkipLayers(k) == \E n \in _skip_layers : FirstSegment(k) = <<n>>

\* '.lora_layer.' in k
HasLoraMarker(k) ==
  \E i \in 1..Len(k) :
    i + 2 <= Len(k) /\ SubSeq(k, i, i + 2) = <<".", "lora_layer", ".">>

\* ------------------------------------------------------------ architecture
\* named_modules() order of the network built by the base constructor; the
\* weight-bearing modules of a small ControlNet.
ModuleOrder ==
  <<"conv_in", "time_proj", "time_embedding.linear_1", "class_embedding",
    "controlnet_cond_embedding.conv_in", "down_blocks.0.norm",
    "down_blocks.0.conv1", "down_blocks.0.to_q", "controlnet_down_blocks.0",
    "mid_block.proj">>

ModulePath(m) ==
  CASE m = "conv_in" -> <<"conv_in">>
    [] m = "time_proj" -> <<"time_proj">>
    [] m = "time_embedding.linear_1" -> <<"time_embedding", "linear_1">>
    [] m = "class_embedding" -> <<"class_embedding">>
    [] m = "controlnet_cond_embedding.conv_in" -> <<"controlnet_cond_embedding", "conv_in">>
    [] m = "down_blocks.0.norm" -> <<"down_blocks", "0", "norm">>
    [] m = "down_blocks.0.conv1" -> <<"down_blocks", "0", "conv1">>
    [] m = "down_blocks.0.to_q" -> <<"down_blocks", "0", "to_q">>
    [] m = "controlnet_down_blocks.0" -> <<"controlnet_down_blocks", "0">>
    [] m = "mid_block.proj" -> <<"mid_block", "proj">>
    [] m = "vae" -> <<"vae", "encoder">>
    [] m = "up_blocks.0.conv" -> <<"up_blocks", "0", "conv">>

Layer(kind, compat, hasWeight) ==
  [kind |-> kind, compat |-> compat, hasWeight |-> hasWeight,
   lora |-> NoLora, guarded |-> FALSE]

\* The layer the base ControlNet constructor puts at module m.
BaseLayer(m) ==
  CASE m = "conv_in" -> Layer("Conv2d", FALSE, TRUE)
    [] m = "time_proj" -> Layer("Other", FALSE, FALSE)
    [] m = "time_embedding.linear_1" -> Layer("Linear", FALSE, TRUE)
    [] m = "class_embedding" -> Layer("Other", FALSE, TRUE)
    [] m = "controlnet_cond_embedding.conv_in" -> Layer("Conv2d", FALSE, TRUE)
    [] m = "down_blocks.0.norm" -> Layer("Other", FALSE, TRUE)
    [] m = "down_blocks.0.conv1" -> Layer("Conv2d", TRUE, TRUE)
    [] m = "down_blocks.0.to_q" -> Layer("Linear", TRUE, TRUE)
    [] m = "controlnet_down_blocks.0" -> Layer("Conv2d", FALSE, TRUE)
    [] m = "mid_block.proj" -> Layer("Linear", TRUE, TRUE)

\* Modules of the network after super().__init__: class_embedding exists only
\* when the configuration asks for one.
BaseModules(classEmb) ==
  {ModuleOrder[i] : i \in 1..Len(ModuleOrder)} \
    (IF classEmb THEN {} ELSE {"class_embedding"})

\* ------------------------------------------------------------------- state
VARIABLES
  pc,        \* "new" before the constructor has run, "ready" after
  config,    \* the registered configuration (self.config)
  self,      \* instance attributes set by __init__
  layers,    \* module name -> layer (kind, adapter capability, adapter, guard)
  built,     \* layers as they were when the constructor returned
  params,    \* the full parameter mapping, in order: <<[k, o], ...>>
  heap,      \* parameter object -> value
  vae,       \* the bound encoder, or None
  bound,     \* history: was a non-null encoder ever bound, and the last one
  ser,       \* results of the last state_dict / load_state_dict calls
  tie,       \* result of the last tie_weights call
  fwd,       \* what the last forward call did
  lastOp,    \* the operation that produced this state
  loads,     \* number of load_state_dict calls so far
  calls,     \* modules that received an external set_lora_layer(None)
  writes     \* number of parameter writes so far

vars ==
  <<pc, config, self, layers, built, params, heap, vae, bound, ser, tie, fwd,
    lastOp, loads, calls, writes>>

\* ------------------------------------------------------ parameter mapping
WeightKey(m) == Join(ModulePath(m) \o <<"weight">>)
LoraDownKey(m) == Join(ModulePath(m) \o <<"lora_layer", "down", "weight">>)
LoraUpKey(m) == Join(ModulePath(m) \o <<"lora_layer", "up", "weight">>)

\* Parameter paths one module contributes: its own weight, then the weights
\* of its lora_layer child.
ModuleKeys(m, l) ==
  (IF l.hasWeight THEN <<WeightKey(m)>> ELSE <<>>) \o
  (IF l.lora # NoLora THEN <<LoraDownKey(m), LoraUpKey(m)>> ELSE <<>>)

RECURSIVE KeysFrom(_, _)
KeysFrom(ls, i) ==
  IF i > Len(ModuleOrder) THEN <<>>
  ELSE (IF ModuleOrder[i] \in DOMAIN ls
          THEN ModuleKeys(ModuleOrder[i], ls[ModuleOrder[i]])
          ELSE <<>>) \o KeysFrom(ls, i + 1)

\* Paths of the full mapping: the network's modules in registration order,
\* then the bound encoder (registered as child "vae" when it is not None).
FullKeys(ls, v) ==
  KeysFrom(ls, 1) \o (IF v # None THEN <<WeightKey("vae")>> ELSE <<>>)

ModelObj(k) == [own |-> "m", k |-> k]
UnetObj(k) == [own |-> "u", k |-> k]
VaeObj(v, k) == [own |-> v, k |-> k]

Vaes == {"vae1", "vae2"}

\* The modules of a base UNet2DConditionModel; class_embedding is optional.
UnetModules(classEmb) ==
  {"conv_in", "time_proj", "time_embedding.linear_1", "down_blocks.0.norm",
   "down_blocks.0.conv1", "down_blocks.0.to_q", "mid_block.proj",
   "up_blocks.0.conv"} \cup (IF classEmb THEN {"class_embedding"} ELSE {})

AllModules ==
  {ModuleOrder[i] : i \in 1..Len(ModuleOrder)} \cup {"up_blocks.0.conv"}

\* Every parameter object that can exist: the network's own weights, the
\* adapter weights of its convolution and linear layers, the base UNet's
\* weights and adapter weights, the encoders' weights.
AllObjects ==
  {ModelObj(WeightKey(ModuleOrder[i])) : i \in 1..Len(ModuleOrder)}
    \cup {ModelObj(k) : k \in UNION {{LoraDownKey(ModuleOrder[i]), LoraUpKey(ModuleOrder[i])} :
             i \in {j \in 1..Len(ModuleOrder) :
                      BaseLayer(ModuleOrder[j]).kind \in {"Conv2d", "Linear"}}}}
    \cup {UnetObj(WeightKey(m)) : m \in UnetModules(TRUE)}
    \cup {UnetObj(LoraDownKey("down_blocks.0.to_q")),
          UnetObj(LoraUpKey("down_blocks.0.to_q"))}
    \cup {VaeObj(v, WeightKey("vae")) : v \in Vaes}

KeySet(sd) == {sd[i].k : i \in 1..Len(sd)}
Lookup(sd, k) == sd[CHOOSE i \in 1..Len(sd) : sd[i].k = k]

\* The slots of the network with modules ls and encoder v: a slot that was
\* there before keeps its parameter object, a new one gets its own object.
NamedParameters(ls, v, old) ==
  LET keys == FullKeys(ls, v)
  IN [i \in 1..Len(keys) |->
        [k |-> keys[i],
         o |-> IF keys[i] \in KeySet(old) THEN Lookup(old, keys[i]).o
               ELSE IF keys[i] = WeightKey("vae") THEN VaeObj(v, keys[i])
               ELSE ModelObj(keys[i])]]

\* ------------------------------------------------ adapter installation
\* LoRACompatibleConv(...) / LoRACompatibleLinear(...) built in place of a
\* plain nn.Conv2d / nn.Linear.
ReplaceWithCompatible(l) ==
  IF l.kind \in {"Conv2d", "Linear"} /\ ~l.compat
    THEN [l EXCEPT !.compat = TRUE, !.lora = NoLora, !.guarded = FALSE]
    ELSE l

set_lora_layer_Unguarded(l, arg) == [l EXCEPT !.lora = arg]

\* attn_processor.set_lora_layer(arg): the library setter stores arg; the
\* lambda wrapped around it on guarded layers ignores None.
set_lora_layer(l, arg) ==
  IF l.guarded /\ arg = NoLora THEN l ELSE [l EXCEPT !.lora = arg]

InitLoraLayer_ConvTestsLinearRank(l0, lin, conv) ==
  LET l == ReplaceWithCompatible(l0)
  IN IF lin > 0 /\ l.kind = "Conv2d" /\ l.compat
       THEN set_lora_layer(l, lin)
     ELSE IF lin > 0 /\ l.kind = "Linear" /\ l.compat
       THEN set_lora_layer([l EXCEPT !.guarded = TRUE], lin)
     ELSE l

\* One iteration of the installation loop for a module of the allow-list.
InitLoraLayer(l0, lin, conv) ==
  LET l == ReplaceWithCompatible(l0)
  IN IF conv > 0 /\ l.kind = "Conv2d" /\ l.compat
       THEN set_lora_layer(l, lin)
     ELSE IF lin > 0 /\ l.kind = "Linear" /\ l.compat
       THEN set_lora_layer([l EXCEPT !.guarded = TRUE], lin)
     ELSE l

NoSer ==
  [saved |-> <<>>, first |-> <<>>, rt |-> 0, arg |-> <<>>, strict |-> FALSE,
   default |-> <<>>, W |-> <<>>, missing |-> {}, unexpected |-> {},
   err |-> "none"]
\* ser after an operation that is neither a save nor a load: the last saved
\* mapping stays, the record of the last load and of a round trip is dropped.
SerIdle == [NoSer EXCEPT !.saved = ser.saved]

NoTie ==
  [state |-> "none", unetClassEmb |-> FALSE, unetLora |-> FALSE,
   before |-> <<>>, unetBefore |-> <<>>, unetAfter |-> <<>>]
NoTensor == [src |-> "none", enc |-> None, res |-> 0, up |-> 1]
NoFwd ==
  [err |-> "none", readVae |-> FALSE, sample |-> NoTensor, cond |-> NoTensor]

Init ==
  /\ pc = "new"
  /\ config = [lora_linear_rank |-> 0, lora_conv2d_rank |-> 0,
               use_conditioning_latent |-> FALSE,
               use_same_level_conditioning_latent |-> FALSE,
               conditioning_channels |-> 0, class_embedding |-> FALSE]
  /\ self = [use_conditioning_latent |-> FALSE,
             use_same_level_conditioning_latent |-> FALSE,
             controlnet_cond_embedding |-> "module"]
  /\ layers = << >>
  /\ built = << >>
  /\ params = << >>
  /\ heap = [o \in AllObjects |-> 0]
  /\ vae = None
  /\ bound = [ever |-> FALSE, last |-> None]
  /\ ser = NoSer
  /\ tie = NoTie
  /\ fwd = NoFwd
  /\ lastOp = "none"
  /\ loads = 0
  /\ calls = {}
  /\ writes = 0

\* The modules __init__ leaves behind: the base constructor's modules, without
\* the conditioning embedding under same-level conditioning, after the
\* installation loop over the allow-listed ones.
InitLayers(lin, conv, usl, classEmb) ==
  LET mods == BaseModules(classEmb) \
                (IF usl THEN {"controlnet_cond_embedding.conv_in"} ELSE {})
  IN [m \in mods |->
        IF InSkipLayers(Join(ModulePath(m)))
          THEN InitLoraLayer(BaseLayer(m), lin, conv)
          ELSE BaseLayer(m)]

InitConfig(lin, conv, ucl, usl, classEmb) ==
  [lora_linear_rank |-> lin, lora_conv2d_rank |-> conv,
   use_conditioning_latent |-> IF usl THEN FALSE ELSE ucl,
   use_same_level_conditioning_latent |-> usl,
   conditioning_channels |->
     IF ucl THEN in_channels_default ELSE conditioning_channels_default,
   class_embedding |-> classEmb]

InitSelf(ucl, usl) ==
  [use_conditioning_latent |-> ucl,
   use_same_level_conditioning_latent |-> usl,
   controlnet_cond_embedding |-> IF usl THEN "zero" ELSE "module"]

\* ControlLoRAModel.__init__
Construct(lin, conv, ucl, usl, classEmb) ==
  /\ pc = "new"
  /\ pc' = "ready"
  /\ config' = InitConfig(lin, conv, ucl, usl, classEmb)
  /\ self' = InitSelf(ucl, usl)
  /\ layers' = InitLayers(lin, conv, usl, classEmb)
  /\ built' = layers'
  /\ params' = NamedParameters(layers', None, <<>>)
  /\ vae' = None
  /\ lastOp' = "__init__"
  /\ UNCHANGED <<heap, bound, ser, tie, fwd, loads, calls, writes>>

\* An external call layer.set_lora_layer(None) on an adapter-capable layer.
ClearLoraLayer(m) ==
  /\ pc = "ready"
  /\ m \in DOMAIN layers
  /\ layers[m].compat
  /\ layers' = [layers EXCEPT ![m] = set_lora_layer(@, NoLora)]
  /\ params' = NamedParameters(layers', vae, params)
  /\ lastOp' = "set_lora_layer"
  /\ calls' = calls \cup {m}
  /\ ser' = SerIdle
  /\ UNCHANGED <<pc, config, self, built, heap, vae, bound, tie, fwd, loads, writes>>

\* ---------------------------------------------------------- serialization
\* super().state_dict(): every slot in order, with its object's value.
FullStateDict(ps, h) == [i \in 1..Len(ps) |-> [k |-> ps[i].k, v |-> h[ps[i].o]]]

KeepKey_NoMarker(k) == ~InSkipLayers(k)

\* The test of the save filter.
KeepKey(k) == ~InSkipLayers(k) \/ HasLoraMarker(k)

\* ControlLoRAModel.state_dict
state_dict(full) == SelectSeq(full, LAMBDA e : KeepKey(e.k))

NeedsBackfill_NoAbsenceTest(k, W) == InSkipLayers(k)
NeedsBackfill_Inverted(k, W) == InSkipLayers(k) /\ k \in KeySet(W)
NeedsBackfill_AnyMissing(k, W) == k \notin KeySet(W)

\* The test of the backfill loop.
NeedsBackfill(k, W) == InSkipLayers(k) /\ k \notin KeySet(W)

\* new_state_dict[k] = v on an ordered mapping: an existing key keeps its
\* place and takes the new value, a new key goes to the end.
Put(W, k, v) ==
  IF k \in KeySet(W)
    THEN [i \in 1..Len(W) |-> IF W[i].k = k THEN [k |-> k, v |-> v] ELSE W[i]]
    ELSE Append(W, [k |-> k, v |-> v])

\* The backfill loop over the default mapping D, from its i-th entry on.
RECURSIVE Backfill(_, _, _)
Backfill(W, D, i) ==
  IF i > Len(D) THEN W
  ELSE Backfill(IF NeedsBackfill(D[i].k, W) THEN Put(W, D[i].k, D[i].v) ELSE W,
                D, i + 1)

\* The working copy load_state_dict hands to the base routine.
WorkingCopy(S, D) == Backfill(S, D, 1)

\* The base load routine: copies every entry of W whose key is a slot of the
\* network into that slot's object, in place.
BaseLoadHeap(W, ps, h) ==
  LET wk == KeySet(W)
      hit == {i \in 1..Len(ps) : ps[i].k \in wk}
      objs == {ps[i].o : i \in hit}
      last(o) == CHOOSE i \in hit : ps[i].o = o /\ \A j \in hit : ps[j].o = o => j <= i
  IN [o \in DOMAIN h |-> IF o \in objs THEN Lookup(W, ps[last(o)].k).v ELSE h[o]]

MissingKeys(W, ps) == KeySet(ps) \ KeySet(W)
UnexpectedKeys(W, ps) == KeySet(W) \ KeySet(ps)

\* Keys a supplied checkpoint may carry besides the saved ones: a shared
\* weight, an adapter weight of a layout the network does not have, a key of
\* no submodule at all, an encoder weight.
ExtraKeys ==
  {WeightKey("conv_in"),
   Join(<<"down_blocks", "0", "to_q", "lora_layer", "mid", "weight">>),
   Join(<<"foo", "weight">>),
   WeightKey("vae")}

\* ControlLoRAModel.state_dict()
StateDict ==
  /\ pc = "ready"
  /\ LET out == state_dict(FullStateDict(params, heap))
     IN ser' = [NoSer EXCEPT !.saved = out,
                             !.first = IF ser.rt = 2 THEN ser.first ELSE out,
                             !.rt = IF ser.rt = 2 THEN 3 ELSE 1]
  /\ lastOp' = "state_dict"
  /\ UNCHANGED <<pc, config, self, layers, built, params, heap, vae, bound,
                 tie, fwd, loads, calls, writes>>

\* ControlLoRAModel.load_state_dict(S, strict)
LoadStateDict(S, strict) ==
  /\ pc = "ready"
  /\ loads < MaxLoads
  /\ LET D == FullStateDict(params, heap)
         W == WorkingCopy(S, D)
         bad == MissingKeys(W, params) \cup UnexpectedKeys(W, params)
     IN /\ heap' = BaseLoadHeap(W, params, heap)
        /\ ser' = [ser EXCEPT !.arg = S, !.strict = strict, !.default = D,
                              !.W = W,
                              !.missing = MissingKeys(W, params),
                              !.unexpected = UnexpectedKeys(W, params),
                              !.err = IF strict /\ bad # {} THEN "key_mismatch"
                                      ELSE "ok",
                              !.first = IF ser.rt = 1 /\ S = ser.saved
                                          THEN @ ELSE <<>>,
                              !.rt = IF ser.rt = 1 /\ S = ser.saved
                                       THEN 2 ELSE 0]
  /\ loads' = loads + 1
  /\ lastOp' = "load_state_dict"
  /\ UNCHANGED <<pc, config, self, layers, built, params, vae, bound, tie, fwd,
                 calls, writes>>

\* Keys a supplied checkpoint may lack: a weight of a submodule outside the
\* allow-list, an adapter weight.
DropKeys ==
  {WeightKey("controlnet_down_blocks.0"), LoraUpKey("down_blocks.0.to_q")}

\* A supplied checkpoint: the last saved mapping, possibly without one of its
\* entries and possibly with one more entry.
Load ==
  \E d \in (DropKeys \cap KeySet(ser.saved)) \cup {<<>>},
     x \in ExtraKeys \cup {<<>>}, strict \in BOOLEAN :
    /\ x \notin KeySet(ser.saved)
    /\ LoadStateDict(SelectSeq(ser.saved, LAMBDA e : e.k # d) \o
                       (IF x = <<>> THEN <<>> ELSE <<[k |-> x, v |-> MaxVal]>>),
                     strict)

\* The value an optimizer step moves a parameter value x to.
NextVal(x) == (x + 1) % (MaxVal + 1)

\* An optimizer step (or any in-place write) on one parameter object.
WriteParam(o, v) ==
  /\ pc = "ready"
  /\ writes < MaxWrites
  /\ heap[o] # v
  /\ heap' = [heap EXCEPT ![o] = v]
  /\ writes' = writes + 1
  /\ lastOp' = "write"
  /\ ser' = SerIdle
  /\ UNCHANGED <<pc, config, self, layers, built, params, vae, bound, tie, fwd,
                 loads, calls>>

\* ControlLoRAModel.bind_vae: assigning a module registers it as child "vae",
\* assigning None unregisters it.
BindVae(v) ==
  /\ pc = "ready"
  /\ vae' = v
  /\ bound' = [ever |-> bound.ever \/ v # None, last |-> v]
  /\ params' = NamedParameters(layers, v,
                 SelectSeq(params, LAMBDA e : e.k # WeightKey("vae")))
  /\ lastOp' = "bind_vae"
  /\ ser' = SerIdle
  /\ UNCHANGED <<pc, config, self, layers, built, heap, tie, fwd, loads, calls,
                 writes>>

\* Parameters the optimizer step is tried on: an adapter weight, a weight of
\* a submodule outside the allow-list, a shared weight.
WriteKeys ==
  {LoraUpKey("down_blocks.0.to_q"), WeightKey("conv_in")}

RankChoices == {lora_conv2d_rank_default, lora_linear_rank_default}

\* The configurations the serialization runs construct: every input takes
\* each of its values in one of them.
SerConfigs ==
  {[lin |-> lora_linear_rank_default, conv |-> lora_conv2d_rank_default,
    usl |-> FALSE, classEmb |-> TRUE],
   [lin |-> lora_linear_rank_default, conv |-> lora_linear_rank_default,
    usl |-> TRUE, classEmb |-> FALSE],
   [lin |-> lora_conv2d_rank_default, conv |-> lora_linear_rank_default,
    usl |-> FALSE, classEmb |-> FALSE],
   [lin |-> lora_conv2d_rank_default, conv |-> lora_conv2d_rank_default,
    usl |-> TRUE, classEmb |-> TRUE]}

NextSer ==
  \/ \E c \in SerConfigs : Construct(c.lin, c.conv, FALSE, c.usl, c.classEmb)
  \/ StateDict
  \/ Load
  \/ \E k \in WriteKeys \cap KeySet(params) :
       WriteParam(Lookup(params, k).o, NextVal(heap[Lookup(params, k).o]))
  \/ BindVae("vae1")

SpecSer == Init /\ [][NextSer]_vars

\* ------------------------------------------------------------ weight tying
\* The submodules tie_weights walks, in its order.
TiedSubmodules ==
  <<"conv_in", "time_proj", "time_embedding", "class_embedding", "down_blocks",
    "mid_block">>

\* The base UNet's modules in named_parameters() order.
UnetOrder ==
  <<"conv_in", "time_proj", "time_embedding.linear_1", "class_embedding",
    "down_blocks.0.norm", "down_blocks.0.conv1", "down_blocks.0.to_q",
    "mid_block.proj", "up_blocks.0.conv">>

\* The module of the base UNet that carries an adapter of its own when one
\* was loaded into the base network.
UnetLoraModule == "down_blocks.0.to_q"

\* The parameters module m contributes to the base network's
\* named_parameters(): its weight, then the weights of its lora_layer.
UnetModuleParams(m, unetLora) ==
  (IF m = "up_blocks.0.conv" \/ BaseLayer(m).hasWeight
     THEN <<[m |-> m, k |-> WeightKey(m), adapter |-> FALSE]>> ELSE <<>>) \o
  (IF unetLora /\ m = UnetLoraModule
     THEN <<[m |-> m, k |-> LoraDownKey(m), adapter |-> TRUE],
            [m |-> m, k |-> LoraUpKey(m), adapter |-> TRUE]>>
     ELSE <<>>)

RECURSIVE UnetParamsFrom(_, _, _)
UnetParamsFrom(unetClassEmb, unetLora, i) ==
  IF i > Len(UnetOrder) THEN <<>>
  ELSE (IF UnetOrder[i] \in UnetModules(unetClassEmb)
          THEN UnetModuleParams(UnetOrder[i], unetLora) ELSE <<>>)
       \o UnetParamsFrom(unetClassEmb, unetLora, i + 1)

\* source_module.named_parameters() for the base's top-level submodule sub.
SourceParameters(sub, unetClassEmb, unetLora) ==
  SelectSeq(UnetParamsFrom(unetClassEmb, unetLora, 1),
            LAMBDA e : ModulePath(e.m)[1] = sub)

\* The parameter slots of the base network.
UnetSlots(unetClassEmb, unetLora) ==
  LET es == UnetParamsFrom(unetClassEmb, unetLora, 1)
  IN [i \in 1..Len(es) |-> [k |-> es[i].k, o |-> UnetObj(es[i].k)]]

SetSlot_KeepTarget(ps, k, o) == ps
SetSlot_WholeModule(ps, k, o) ==
  [i \in 1..Len(ps) |->
     IF Len(ps[i].k) >= Len(k) - 1
        /\ SubSeq(ps[i].k, 1, Len(k) - 1) = SubSeq(k, 1, Len(k) - 1)
       THEN [k |-> ps[i].k, o |-> o] ELSE ps[i]]

\* setattr(target_parent_module, base_weight_name, weight): the slot now
\* holds the source's parameter object itself.
SetSlot(ps, k, o) ==
  IF k \in KeySet(ps)
    THEN [i \in 1..Len(ps) |-> IF ps[i].k = k THEN [k |-> k, o |-> o] ELSE ps[i]]
    ELSE Append(ps, [k |-> k, o |-> o])

\* _tie_weights(source, target) over the source's parameters from the i-th
\* on: the walk down the target fails when the target has no module at the
\* path, or has None where the source has a lora_layer; otherwise the
\* source's object is read from the source's slot and set on the target.
RECURSIVE _tie_weights(_, _, _, _)
_tie_weights(src, i, ls, r) ==
  IF r.err \/ i > Len(src) THEN r
  ELSE IF src[i].m \notin DOMAIN ls
    THEN [r EXCEPT !.err = TRUE]
  ELSE IF src[i].adapter /\ ls[src[i].m].lora = NoLora
    THEN [r EXCEPT !.err = TRUE]
  ELSE _tie_weights(src, i + 1, ls,
         [r EXCEPT !.ps = SetSlot(@, src[i].k, Lookup(r.us, src[i].k).o)])

\* tie_weights(unet), from the j-th submodule on.  class_embedding is tied
\* only when this network has one; a base without it then has None there and
\* reading its parameters fails.
RECURSIVE tie_weights(_, _, _, _, _)
tie_weights(unetClassEmb, unetLora, j, ls, r) ==
  IF r.err \/ j > Len(TiedSubmodules) THEN r
  ELSE LET sub == TiedSubmodules[j]
       IN IF sub = "class_embedding" /\ "class_embedding" \notin DOMAIN ls
            THEN tie_weights(unetClassEmb, unetLora, j + 1, ls, r)
          ELSE IF sub = "class_embedding" /\ ~unetClassEmb
            THEN [r EXCEPT !.err = TRUE]
          ELSE tie_weights(unetClassEmb, unetLora, j + 1, ls,
                 _tie_weights(SourceParameters(sub, unetClassEmb, unetLora),
                              1, ls, r))

\* Slots with the value each holds: <<[k, o, v], ...>>.
Snapshot(ps, h) ==
  [i \in 1..Len(ps) |-> [k |-> ps[i].k, o |-> ps[i].o, v |-> h[ps[i].o]]]

\* What a tie_weights call leaves in tie: how it ended, the base network it
\* was given, and both networks' slots before and after it (the call writes
\* no value, so the heap after it is the heap before it).
TieRecord(unetClassEmb, unetLora, before, r) ==
  [state |-> IF r.err THEN "error" ELSE "ok",
   unetClassEmb |-> unetClassEmb, unetLora |-> unetLora,
   before |-> Snapshot(before, heap),
   unetBefore |-> Snapshot(UnetSlots(unetClassEmb, unetLora), heap),
   unetAfter |-> Snapshot(r.us, heap)]

\* ControlLoRAModel.tie_weights(unet)
TieWeights(unetClassEmb, unetLora) ==
  /\ pc = "ready"
  /\ LET r == tie_weights(unetClassEmb, unetLora, 1, layers,
                [ps |-> params, us |-> UnetSlots(unetClassEmb, unetLora),
                 err |-> FALSE])
     IN /\ params' = r.ps
        /\ tie' = TieRecord(unetClassEmb, unetLora, params, r)
  /\ lastOp' = "tie_weights"
  /\ ser' = SerIdle
  /\ UNCHANGED <<pc, config, self, layers, built, heap, vae, bound, fwd, loads,
                 calls, writes>>

\* ControlLoRAModel.from_unet(unet, ...): the configuration is taken from the
\* base network, the network is constructed and tied before it is returned.
FromUnet(unetClassEmb, unetLora, lin, conv, ucl, usl) ==
  /\ pc = "new"
  /\ pc' = "ready"
  /\ config' = InitConfig(lin, conv, ucl, usl, unetClassEmb)
  /\ self' = InitSelf(ucl, usl)
  /\ layers' = InitLayers(lin, conv, usl, unetClassEmb)
  /\ built' = layers'
  /\ LET ps == NamedParameters(layers', None, <<>>)
         r == tie_weights(unetClassEmb, unetLora, 1, layers',
                [ps |-> ps, us |-> UnetSlots(unetClassEmb, unetLora),
                 err |-> FALSE])
     IN /\ params' = r.ps
        /\ tie' = TieRecord(unetClassEmb, unetLora, ps, r)
  /\ vae' = None
  /\ lastOp' = "from_unet"
  /\ UNCHANGED <<heap, bound, ser, fwd, loads, calls, writes>>

\* Objects the optimizer step is tried on through the base network.
UnetWriteObjs ==
  {UnetObj(WeightKey("conv_in")), UnetObj(LoraUpKey(UnetLoraModule)),
   UnetObj(WeightKey("up_blocks.0.conv"))}

NextTie ==
  \/ \E lin \in RankChoices, conv \in RankChoices, usl \in BOOLEAN,
        classEmb \in BOOLEAN : Construct(lin, conv, FALSE, usl, classEmb)
  \/ \E u \in BOOLEAN, ul \in BOOLEAN, lin \in RankChoices,
        conv \in RankChoices, usl \in BOOLEAN :
       FromUnet(u, ul, lin, conv, FALSE, usl)
  \/ \E u \in BOOLEAN, ul \in BOOLEAN : TieWeights(u, ul)
  \/ \E k \in WriteKeys \cap KeySet(params) :
       WriteParam(Lookup(params, k).o, NextVal(heap[Lookup(params, k).o]))
  \/ \E o \in UnetWriteObjs : WriteParam(o, NextVal(heap[o]))

SpecTie == Init /\ [][NextTie]_vars

\* ----------------------------------------------------------- forward pass
\* len(vae.config.block_out_channels) of the two encoders.
VaeBlocks(v) == IF v = "vae1" THEN 4 ELSE 3

RECURSIVE Pow2(_)
Pow2(n) == IF n <= 0 THEN 1 ELSE 2 * Pow2(n - 1)

\* vae.encode(cond * 2 - 1).latent_dist.sample() * scaling_factor: a latent
\* of the encoder, at the encoder's reduced resolution.
Encode(v, t) ==
  [src |-> "latent", enc |-> v, res |-> t.res \div Pow2(VaeBlocks(v) - 1), up |-> 1]

\* F.interpolate(t, scale_factor=f, mode='nearest')
Interpolate(t, f) == [t EXCEPT !.res = @ * f, !.up = @ * f]

forward_DefaultEncoder(slf, v, sample, cond) ==
  LET e == IF v = None THEN "vae1" ELSE v
      latentOn == slf.use_conditioning_latent \/ slf.use_same_level_conditioning_latent
      lat == Encode(e, cond)
      c == IF ~latentOn THEN cond
           ELSE IF slf.use_conditioning_latent
             THEN Interpolate(lat, Pow2(VaeBlocks(e) - 1))
           ELSE lat
  IN [err |-> "none", readVae |-> latentOn,
      sample |-> IF slf.use_same_level_conditioning_latent THEN c ELSE sample,
      cond |-> c]

\* ControlLoRAModel.forward up to the call of the base forward: what the call
\* hands to the base forward as sample and controlnet_cond, or the error.
forward(slf, v, sample, cond) ==
  LET latentOn == slf.use_conditioning_latent \/ slf.use_same_level_conditioning_latent
      lat == Encode(v, cond)
      c == IF ~latentOn THEN cond
           ELSE IF slf.use_conditioning_latent
             THEN Interpolate(lat, Pow2(VaeBlocks(v) - 1))
           ELSE lat
  IN IF latentOn /\ v = None
       THEN [err |-> "null_ref", readVae |-> TRUE, sample |-> NoTensor,
             cond |-> NoTensor]
       ELSE [err |-> "none", readVae |-> latentOn,
             sample |-> IF slf.use_same_level_conditioning_latent THEN c ELSE sample,
             cond |-> c]

SampleInput == [src |-> "sample", enc |-> None, res |-> 8, up |-> 1]
CondInput(res) == [src |-> "cond", enc |-> None, res |-> res, up |-> 1]
CondResolutions == {32, 64}

Forward(res) ==
  /\ pc = "ready"
  /\ fwd' = forward(self, vae, SampleInput, CondInput(res))
  /\ lastOp' = "forward"
  /\ ser' = SerIdle
  /\ UNCHANGED <<pc, config, self, layers, built, params, heap, vae, bound, tie,
                 loads, calls, writes>>

NextFwd ==
  \/ \E lin \in RankChoices, conv \in RankChoices, ucl \in BOOLEAN,
        usl \in BOOLEAN : Construct(lin, conv, ucl, usl, FALSE)
  \/ \E v \in Vaes \cup {None} : BindVae(v)
  \/ \E res \in CondResolutions : Forward(res)

SpecFwd == Init /\ [][NextFwd]_vars

\* -------------------------------------------------- adapter specification
NextLora ==
  \/ \E lin \in Ranks, conv \in Ranks, ucl \in BOOLEAN, usl \in BOOLEAN,
        classEmb \in BOOLEAN : Construct(lin, conv, ucl, usl, classEmb)
  \/ \E m \in AllModules : ClearLoraLayer(m)

SpecLora == Init /\ [][NextLora]_vars

AllowListed(m) == InSkipLayers(Join(ModulePath(m)))
ConfiguredRank(l) ==
  IF l.kind = "Conv2d" THEN config.lora_conv2d_rank
  ELSE IF l.kind = "Linear" THEN config.lora_linear_rank
  ELSE 0

\* C5: right after construction a layer carries an adapter exactly when it is
\* a convolution or linear layer under an allow-listed submodule and the rank
\* configured for its kind is positive; with the default ranks (linear 4,
\* conv 0) no convolution carries one.  (At most one adapter per layer is the
\* shape of the state: a layer has a single lora field.)
C5_AdapterIffAllowListedAndRankPositive ==
  lastOp = "__init__" =>
    /\ \A m \in DOMAIN layers :
         (layers[m].lora # NoLora) <=>
           /\ AllowListed(m)
           /\ layers[m].kind \in {"Conv2d", "Linear"}
           /\ ConfiguredRank(layers[m]) > 0
    /\ (config.lora_linear_rank = lora_linear_rank_default
        /\ config.lora_conv2d_rank = lora_conv2d_rank_default) =>
         \A m \in DOMAIN layers :
           (layers[m].lora # NoLora) <=>
             (AllowListed(m) /\ layers[m].kind = "Linear")

C5_Witness ==
  /\ lastOp = "__init__"
  /\ config.lora_linear_rank = lora_linear_rank_default
  /\ config.lora_conv2d_rank = lora_conv2d_rank_default
  /\ layers["down_blocks.0.to_q"].lora # NoLora
  /\ layers["time_embedding.linear_1"].lora # NoLora
  /\ layers["conv_in"].lora = NoLora
  /\ layers["controlnet_down_blocks.0"].lora = NoLora

\* C8: every adapter attached at construction has the rank configured for the
\* kind of its layer.
C8_AdapterRankMatchesKind ==
  lastOp = "__init__" =>
    \A m \in DOMAIN layers :
      layers[m].lora # NoLora => layers[m].lora = ConfiguredRank(layers[m])

\* C9 (as claimed): for every adapter-capable layer under an allow-listed
\* submodule, of either kind and for any ranks, set_lora_layer(None) after
\* construction leaves the layer's adapter as it was right after construction.
C9_ClearIsNoOpForEveryLayer ==
  pc = "ready" =>
    \A m \in DOMAIN layers :
      (AllowListed(m) /\ layers[m].compat) => layers[m].lora = built[m].lora

\* C9 (amended): set_lora_layer(None) is a no-op on every linear layer and
\* on every layer that got no adapter; a convolution layer that got an
\* adapter (conv rank > 0) has none after such a call.
C9_ClearIsNoOpExceptAdaptedConv ==
  pc = "ready" =>
    \A m \in DOMAIN layers :
      (AllowListed(m) /\ layers[m].compat) =>
        IF layers[m].kind = "Conv2d" /\ m \in calls
          THEN layers[m].lora = NoLora
          ELSE layers[m].lora = built[m].lora

C9_Witness ==
  /\ {"down_blocks.0.to_q", "down_blocks.0.conv1", "conv_in"} \subseteq calls
  /\ built["down_blocks.0.to_q"].lora # NoLora
  /\ layers["down_blocks.0.to_q"].lora = built["down_blocks.0.to_q"].lora
  /\ built["down_blocks.0.conv1"].lora # NoLora
  /\ layers["down_blocks.0.conv1"].lora = NoLora

\* ------------------------------------------------------ serialization claims
AllowList ==
  {"conv_in", "time_proj", "time_embedding", "class_embedding", "down_blocks",
   "mid_block", "vae"}
TopSegmentAllowListed(k) == Len(k) > 0 /\ k[1] \in AllowList
ContainsAdapterMarker(k) ==
  \E i \in 2..(Len(k) - 1) :
    k[i] = "lora_layer" /\ k[i - 1] = "." /\ k[i + 1] = "."
ProbeKeys == ExtraKeys \cup KeySet(FullStateDict(params, heap))

\* C1: state_dict() returns exactly the entries of the full mapping whose
\* top-level segment is not allow-listed or whose path contains the adapter
\* marker, each with the value it has in the full mapping; nothing is added.
C1_StateDictKeepsExactlyOwnedAndAdapterKeys ==
  lastOp = "state_dict" =>
    LET full == FullStateDict(params, heap)
    IN \A k \in ProbeKeys :
         /\ (k \in KeySet(ser.saved)) <=>
              /\ k \in KeySet(full)
              /\ (~TopSegmentAllowListed(k) \/ ContainsAdapterMarker(k))
         /\ k \in KeySet(ser.saved) => Lookup(ser.saved, k).v = Lookup(full, k).v

C1_Witness ==
  /\ lastOp = "state_dict"
  /\ LoraUpKey("down_blocks.0.to_q") \in KeySet(ser.saved)
  /\ WeightKey("controlnet_down_blocks.0") \in KeySet(ser.saved)
  /\ WeightKey("down_blocks.0.to_q") \in KeySet(params)
  /\ WeightKey("down_blocks.0.to_q") \notin KeySet(ser.saved)
  /\ WeightKey("vae") \in KeySet(params)
  /\ WeightKey("vae") \notin KeySet(ser.saved)

\* C2: the working copy handed to the base load routine agrees with the
\* supplied mapping on every supplied key, holds the default entry for every
\* allow-listed key of the network absent from the supplied mapping, and
\* holds nothing else; so no allow-listed key is ever reported missing.
C2_WorkingCopyIsSuppliedPlusSharedDefaults ==
  lastOp = "load_state_dict" =>
    /\ Cardinality(KeySet(ser.W)) = Len(ser.W)
    /\ \A k \in KeySet(ser.arg) :
         k \in KeySet(ser.W) /\ Lookup(ser.W, k).v = Lookup(ser.arg, k).v
    /\ \A k \in KeySet(ser.default) :
         (TopSegmentAllowListed(k) /\ k \notin KeySet(ser.arg)) =>
           k \in KeySet(ser.W) /\ Lookup(ser.W, k).v = Lookup(ser.default, k).v
    /\ \A k \in KeySet(ser.W) :
         k \in KeySet(ser.arg) \/
           (k \in KeySet(ser.default) /\ TopSegmentAllowListed(k))
    /\ \A k \in ser.missing : ~TopSegmentAllowListed(k)

C2_Witness ==
  /\ lastOp = "load_state_dict"
  /\ WeightKey("conv_in") \in KeySet(ser.arg)
  /\ Lookup(ser.arg, WeightKey("conv_in")).v # Lookup(ser.default, WeightKey("conv_in")).v
  /\ WeightKey("down_blocks.0.to_q") \notin KeySet(ser.arg)
  /\ WeightKey("down_blocks.0.to_q") \in KeySet(ser.W)
  /\ LoraUpKey("down_blocks.0.to_q") \in KeySet(ser.default) \ KeySet(ser.arg)

\* C3: saving, loading the saved mapping back into the same network and
\* saving again gives the first saved mapping again (same keys, values and
\* order); the load in the middle reports no missing or unexpected key.
C3_SaveLoadSaveIsIdempotent ==
  /\ ser.rt = 2 => (ser.err = "ok" /\ ser.missing = {} /\ ser.unexpected = {})
  /\ ser.rt = 3 => ser.saved = ser.first

C3_Witness ==
  /\ ser.rt = 3
  /\ writes > 0
  /\ vae # None
  /\ LoraUpKey("down_blocks.0.to_q") \in KeySet(ser.saved)
  /\ \E i \in 1..Len(ser.saved) : ser.saved[i].v # 0

\* C10: a strict load ends in a key-mismatch error whenever the supplied
\* mapping has a key that is no parameter of the network or lacks a key of
\* the network outside the allow-list; the backfill adds only allow-listed
\* keys and removes none.
C10_StrictLoadSurfacesGenuineMismatch ==
  lastOp = "load_state_dict" =>
    /\ (ser.strict /\
          (\/ \E k \in KeySet(ser.arg) : k \notin KeySet(params)
           \/ \E k \in KeySet(params) :
                ~TopSegmentAllowListed(k) /\ k \notin KeySet(ser.arg)))
         => ser.err = "key_mismatch"
    /\ KeySet(ser.arg) \subseteq KeySet(ser.W)
    /\ \A k \in KeySet(ser.W) \ KeySet(ser.arg) : TopSegmentAllowListed(k)

C10_Witness ==
  /\ lastOp = "load_state_dict" /\ ser.strict
  /\ Join(<<"down_blocks", "0", "to_q", "lora_layer", "mid", "weight">>)
       \in KeySet(ser.arg)
  /\ WeightKey("controlnet_down_blocks.0") \in KeySet(params) \ KeySet(ser.arg)
  /\ WeightKey("down_blocks.0.to_q") \in KeySet(ser.W) \ KeySet(ser.arg)
  /\ ser.err = "key_mismatch"

\* ------------------------------------------------------------- tying claims
SharedTop ==
  {"conv_in", "time_proj", "time_embedding", "class_embedding", "down_blocks",
   "mid_block"}
\* Parameter paths of the base network under the shared submodules;
\* class_embedding counts when the adapted network has one.
SharedBaseKeys ==
  {WeightKey(m) : m \in {x \in UnetModules(tie.unetClassEmb) :
      /\ ModulePath(x)[1] \in SharedTop
      /\ BaseLayer(x).hasWeight
      /\ (x = "class_embedding" => config.class_embedding)}}
    \cup (IF tie.unetLora
            THEN {LoraDownKey(UnetLoraModule), LoraUpKey(UnetLoraModule)}
            ELSE {})

BaseSharedPaths ==
  {tie.unetBefore[i].k : i \in {j \in 1..Len(tie.unetBefore) :
                                  tie.unetBefore[j].k[1] \in SharedTop}}

JustTied == lastOp \in {"tie_weights", "from_unet"}
Unchanged(k) ==
  /\ k \in KeySet(params)
  /\ Lookup(params, k).o = Lookup(tie.before, k).o
  /\ heap[Lookup(params, k).o] = Lookup(tie.before, k).v

\* C11: tie_weights(base) changes only slots of the adapted network whose
\* path exists in base under the shared submodules; every adapter parameter
\* and every parameter outside those submodules is the same object with the
\* same value as before the call, and no slot or value of base is changed.
C11_TieLeavesAdaptersAndOthersAlone ==
  JustTied =>
    /\ \A k \in KeySet(params) :
         (k \notin KeySet(tie.before) \/ ~Unchanged(k)) => k \in BaseSharedPaths
    /\ \A k \in KeySet(tie.before) :
         (ContainsAdapterMarker(k) \/ k[1] \notin SharedTop) => Unchanged(k)
    /\ tie.unetAfter = tie.unetBefore

\* The part of the frame that holds for every base network: slots whose path
\* base does not have under the shared submodules keep object and value, no
\* slot is added or dropped elsewhere, and base itself is left as it was.
TieFrameOutsideBasePaths ==
  JustTied =>
    /\ \A k \in KeySet(params) :
         (k \notin KeySet(tie.before) \/ ~Unchanged(k)) => k \in BaseSharedPaths
    /\ \A k \in KeySet(tie.before) : k \notin BaseSharedPaths => Unchanged(k)
    /\ tie.unetAfter = tie.unetBefore

\* ------------------------------------------------------------ forward claims
\* C6: a network constructed with both latent options on has
\* use_conditioning_latent off in its config, a no-op conditioning embedding,
\* and each forward pass replaces sample by the encoded conditioning latent
\* without upsampling it.
C6_SameLevelLatentIsNotUpsampled ==
  (pc = "ready" /\ self.use_conditioning_latent
     /\ self.use_same_level_conditioning_latent) =>
    /\ config.use_conditioning_latent = FALSE
    /\ self.controlnet_cond_embedding = "zero"
    /\ (lastOp = "forward" /\ fwd.err = "none") =>
         /\ fwd.sample.src = "latent"
         /\ fwd.sample.enc = vae
         /\ fwd.sample.up = 1

LatentOn ==
  self.use_conditioning_latent \/ self.use_same_level_conditioning_latent

\* C7: a forward pass with a latent option on fails with a null reference
\* when no non-null encoder was bound before it (nothing is substituted) and
\* whenever the last bind_vae bound None, and otherwise encodes with the
\* encoder bound last; with both options off it never reads the encoder.
C7_ForwardUsesLastBoundEncoder ==
  lastOp = "forward" =>
    /\ (LatentOn /\ ~bound.ever) => fwd.err = "null_ref"
    /\ (LatentOn /\ bound.last = None) => fwd.err = "null_ref"
    /\ (LatentOn /\ bound.last # None) =>
         fwd.err = "none" /\ fwd.cond.src = "latent" /\ fwd.cond.enc = bound.last
    /\ ~LatentOn =>
         /\ ~fwd.readVae /\ fwd.err = "none"
         /\ fwd.cond.src = "cond" /\ fwd.sample.src = "sample"

C7_Witness ==
  /\ lastOp = "forward" /\ LatentOn
  /\ bound.last = "vae2" /\ vae = "vae2"
  /\ fwd.err = "none" /\ fwd.cond.enc = "vae2" /\ fwd.readVae

====
